---- MODULE Spec2Model ----
(***************************************************************************)
(* Model of the cluster manager's pod allocator                            *)
(* (go-controller/pkg/clustermanager/pod/allocator.go) and of the          *)
(* persistent IPs allocator                                                *)
(* (go-controller/pkg/clustermanager/persistentips/allocator.go).          *)
(*                                                                         *)
(* The subnet (IP) allocator, the tunnel id allocator, the pod annotation  *)
(* allocator, the kube client and the watch factory are collaborators      *)
(* whose code is in other packages; they are modelled from their           *)
(* documented contract and marked so where they are defined.               *)
(***************************************************************************)
EXTENDS Integers, Sequences, FiniteSets, TLC

\* ------------------------------------------------------------------ bounds
NumPods == 2
NumWorkers == 2
MaxStarts == 3
NumIPs == 2
MaxID == 2
MaxCount == 2
MaxRV == 2
MaxClaimIPs == 2
MaxStale == 1

\* ------------------------------------------------------------------- data
Pods == 1..NumPods
\* the addresses inside the configured subnet of the network
IPs == 1..NumIPs
\* an address that parses but lies outside every configured range
OutAddr == NumIPs + 1
Addrs == IPs \cup {OutAddr}
NADs == {"n1", "n2"}
ClaimNames == {"c1"}
Keys == NADs \X Pods

\* errors: "nil" is no error
ErrNil == "nil"
ErrAllocated == "ErrAllocated"
ErrOther == "error"

\* An entry of IPAMClaim.Status.IPs is a string. A well formed one is a CIDR
\* ("192.168.200.2/24"); anything else does not parse.
CIDRString(a) == [kind |-> "cidr", addr |-> a]
JunkString == [kind |-> "junk", addr |-> OutAddr]
IPStrings == {CIDRString(a) : a \in Addrs} \cup {JunkString}

\* util.StringSlice over the IPs of a pod annotation: one string per address,
\* the addresses taken in increasing order.
RECURSIVE SetToSeq(_)
SetToSeq(S) ==
    IF S = {} THEN <<>>
    ELSE LET m == CHOOSE x \in S : \A y \in S : x <= y
         IN <<m>> \o SetToSeq(S \ {m})

StringSlice(ips) == [i \in 1..Len(SetToSeq(ips)) |-> CIDRString(SetToSeq(ips)[i])]

\* util.ParseIPNets: the parsed addresses in order, or an error at the first
\* string that is no CIDR.
ParseIPNets(strs) ==
    IF \E i \in 1..Len(strs) : strs[i].kind # "cidr"
    THEN [err |-> ErrOther, ips |-> <<>>]
    ELSE [err |-> ErrNil, ips |-> [i \in 1..Len(strs) |-> strs[i].addr]]

Range(seq) == {seq[i] : i \in 1..Len(seq)}

\* -------------------------------------------------- subnet (IP) allocator
\* The pool is the set of allocated addresses of the network's subnet.

\* Reserve of one address: outside the ranges fails, taken fails with
\* ErrAllocated.
ReserveErr(p, a) ==
    IF a \notin IPs THEN ErrOther
    ELSE IF a \in p THEN ErrAllocated
    ELSE ErrNil

\* AllocateIPs(ips): reserves the addresses in order and stops at the first one
\* that fails, giving back the ones this call had reserved; one error is
\* returned for the whole batch.
RECURSIVE AllocateIPsFrom(_, _, _, _)
AllocateIPsFrom(p0, p, ips, i) ==
    IF i > Len(ips) THEN [pool |-> p, err |-> ErrNil]
    ELSE IF ReserveErr(p, ips[i]) # ErrNil
         THEN [pool |-> p0, err |-> ReserveErr(p, ips[i])]
         ELSE AllocateIPsFrom(p0, p \cup {ips[i]}, ips, i + 1)

AllocateIPs(p, ips) ==
    IF Len(ips) = 0 THEN [pool |-> p, err |-> ErrOther]
    ELSE AllocateIPsFrom(p, p, ips, 1)

\* ReleaseIPs(ips): the addresses go back to the free set; an address that is
\* not allocated is left alone and is no error.
ReleaseIPs(p, ips) == p \ ips

\* --------------------------------------------------- tunnel id allocator
\* ids is a function from the reserved names to their ids.
ZeroName == <<"zero", 0>>
\* a variant in which pods use the sentinel name
podIdAllocationName_Zero(nad, uid) == ZeroName

\* podIdAllocationName(nad, uid): "<nad>/<uid>"
podIdAllocationName(nad, uid) == <<nad, uid>>

IDsInUse(ids) == {ids[n] : n \in DOMAIN ids}
FreeIDs(ids) == (0..MaxID) \ IDsInUse(ids)

\* ReserveID(name, id): the name takes the id; no change when it holds it
\* already; an error when the name holds another id or the id another name.
ReserveID(ids, name, id) ==
    IF name \in DOMAIN ids
    THEN [ids |-> ids, err |-> IF ids[name] = id THEN ErrNil ELSE ErrOther]
    ELSE IF id \in IDsInUse(ids) \/ id \notin 0..MaxID
         THEN [ids |-> ids, err |-> ErrOther]
         ELSE [ids |-> [n \in DOMAIN ids \cup {name} |->
                          IF n = name THEN id ELSE ids[n]],
               err |-> ErrNil]

\* What an allocator hands out when it chooses among the free ones: `pick`
\* when that is free, else the lowest free one.
PickFrom(free, pick) ==
    IF pick \in free THEN pick ELSE CHOOSE x \in free : \A y \in free : x <= y

\* AllocateID for a name: the id the name holds already, else a free id; an
\* error when no id is free.
AllocateID(ids, name, pick) ==
    IF name \in DOMAIN ids THEN [ids |-> ids, id |-> ids[name], err |-> ErrNil]
    ELSE IF FreeIDs(ids) = {} THEN [ids |-> ids, id |-> 0, err |-> ErrOther]
    ELSE LET id == PickFrom(FreeIDs(ids), pick)
         IN [ids |-> [n \in DOMAIN ids \cup {name} |->
                        IF n = name THEN id ELSE ids[n]],
             id |-> id, err |-> ErrNil]

\* ReleaseID(name): the name's id is free again; an unknown name is left alone.
ReleaseID(ids, name) == [n \in DOMAIN ids \ {name} |-> ids[n]]

\* ------------------------------------------------------- release ledger
\* releasedPods is a map from NAD to the set of released pod UIDs: a function
\* whose domain holds the NADs that have an entry.

\* a variant that records nothing
addReleasedPod_Forgets(rp, nad, uid) == rp

addReleasedPod(rp, nad, uid) ==
    IF nad \notin DOMAIN rp
    THEN [n \in DOMAIN rp \cup {nad} |-> IF n = nad THEN {uid} ELSE rp[n]]
    ELSE [rp EXCEPT ![nad] = rp[nad] \cup {uid}]

\* a variant that keeps the NAD's set when it becomes empty
deleteReleasedPod_KeepsEmpty(rp, nad, uid) ==
    IF nad \in DOMAIN rp THEN [rp EXCEPT ![nad] = rp[nad] \ {uid}] ELSE rp

\* a variant that drops the whole entry of the NAD
deleteReleasedPod_DropsNAD(rp, nad, uid) == [n \in DOMAIN rp \ {nad} |-> rp[n]]

deleteReleasedPod(rp, nad, uid) ==
    IF nad \in DOMAIN rp
    THEN IF Cardinality(rp[nad] \ {uid}) = 0
         THEN [n \in DOMAIN rp \ {nad} |-> rp[n]]
         ELSE [rp EXCEPT ![nad] = rp[nad] \ {uid}]
    ELSE rp

isPodReleased(rp, nad, uid) ==
    IF nad \in DOMAIN rp THEN uid \in rp[nad] ELSE FALSE

\* ----------------------------------------------------------------- state
VARIABLES
    hasIPAM,          \* util.DoesNetworkRequireIPAM(netInfo)
    hasIDAllocation,  \* util.DoesNetworkRequireTunnelIDs(netInfo)
    pool,             \* ipAllocator: the allocated addresses of the network
    idAllocator,      \* idAllocator: reserved name -> tunnel id
    releasedPods,     \* the release ledger
    annot,            \* the pod annotation persisted per (NAD, pod UID)
    claims,           \* the IPAMClaim objects as persisted
    phase,            \* where each pod is in its life on the cluster
    life,             \* what this run of the controller handled for each key
    relIPs,           \* per key: calls of ReleaseIPs made by the release path
    relID,            \* per key: calls of ReleaseID made by the release path
    stale,            \* the out-of-order events delivered so far
    lastOp,           \* the last call made and what it returned
    workers           \* the goroutines that are inside releasePodOnNAD

vars == <<hasIPAM, hasIDAllocation, pool, idAllocator, releasedPods, annot,
          claims, phase, life, relIPs, relID, stale, lastOp, workers>>

\* a goroutine that is not inside releasePodOnNAD
Idle == [pc |-> "idle", uid |-> 0, deleted |-> FALSE, doRelease |-> FALSE,
         hasPersistentIPs |-> FALSE]
Workers == 1..NumWorkers

NoAnnotation == [present |-> FALSE, ips |-> {}, tid |-> 0]
NoClaim == [exists |-> FALSE, ips |-> <<>>, rv |-> 0]

\* network.IPAMClaimReference of the pod's attachment: "" is none.
ClaimRefOf(uid, nad) == IF uid = 1 /\ nad = "n1" THEN "c1" ELSE ""

Bump(n) == IF n < MaxCount THEN n + 1 ELSE n

\* ------------------------------------------- persistent IPs allocator
\* kube.UpdateIPAMLeaseIPs: a status update of the claim the snapshot was read
\* from; the API server refuses it when the claim is gone or was written since
\* the snapshot was read (optimistic concurrency), and it may fail otherwise.
\* a variant in which the last write wins: the API server does not compare
\* versions
UpdateIPAMLeaseIPs_LastWriteWins(cl, c, snap, ips, fails) ==
    IF fails \/ ~cl[c].exists
    THEN [claims |-> cl, err |-> ErrOther]
    ELSE [claims |-> [cl EXCEPT ![c] = [exists |-> TRUE, ips |-> ips,
                                        rv |-> cl[c].rv + 1]],
          err |-> ErrNil]

UpdateIPAMLeaseIPs(cl, c, snap, ips, fails) ==
    IF fails \/ ~cl[c].exists \/ snap.rv # cl[c].rv
    THEN [claims |-> cl, err |-> ErrOther]
    ELSE [claims |-> [cl EXCEPT ![c] = [exists |-> TRUE, ips |-> ips,
                                        rv |-> cl[c].rv + 1]],
          err |-> ErrNil]

\* a variant of Reconcile without the test of the snapshot's status
PersistentIPsReconcile_NoGuard(cl, c, snap, ips, fails) ==
    LET w == UpdateIPAMLeaseIPs(cl, c, snap, ips, fails)
    IN [claims |-> w.claims, err |-> w.err, writes |-> <<ips>>]

\* a variant of Reconcile that drops the error of the write
PersistentIPsReconcile_DropsError(cl, c, snap, ips, fails) ==
    IF Len(snap.ips) > 0
    THEN [claims |-> cl, err |-> ErrNil, writes |-> <<>>]
    ELSE LET w == UpdateIPAMLeaseIPs(cl, c, snap, ips, fails)
         IN [claims |-> w.claims, err |-> ErrNil, writes |-> <<ips>>]

\* Allocator.Reconcile(ipamClaim, ips): the claims after it, the error it
\* returns and the payloads of the status writes it issued, in order.
PersistentIPsReconcile(cl, c, snap, ips, fails) ==
    IF Len(snap.ips) > 0
    THEN [claims |-> cl, err |-> ErrNil, writes |-> <<>>]
    ELSE LET w == UpdateIPAMLeaseIPs(cl, c, snap, ips, fails)
         IN [claims |-> w.claims, err |-> w.err, writes |-> <<ips>>]

\* a variant of Delete that releases nothing
PersistentIPsDelete_NoRelease(p, statusIPs) ==
    IF ParseIPNets(statusIPs).err # ErrNil THEN [pool |-> p, err |-> ErrOther]
    ELSE [pool |-> p, err |-> ErrNil]

\* Allocator.Delete(pips)
PersistentIPsDelete(p, statusIPs) ==
    LET parsed == ParseIPNets(statusIPs)
    IN IF parsed.err # ErrNil THEN [pool |-> p, err |-> ErrOther]
       ELSE [pool |-> ReleaseIPs(p, Range(parsed.ips)), err |-> ErrNil]

\* Allocator.Sync(objs): an object is [isClaim, ips]; one that is no IPAMClaim
\* is skipped.
RECURSIVE SyncCollect(_, _, _)
SyncCollect(objs, i, acc) ==
    IF i > Len(objs) THEN [err |-> ErrNil, ips |-> acc]
    ELSE IF ~objs[i].isClaim THEN SyncCollect(objs, i + 1, acc)
    ELSE LET parsed == ParseIPNets(objs[i].ips)
         IN IF parsed.err # ErrNil THEN [err |-> ErrOther, ips |-> acc]
            ELSE SyncCollect(objs, i + 1, acc \o parsed.ips)

\* a variant of Sync that reserves what it has collected when a claim fails
\* to parse
PersistentIPsSync_ReservesCollected(p, objs) ==
    LET col == SyncCollect(objs, 1, <<>>)
        a == AllocateIPs(p, col.ips)
    IN IF Len(col.ips) = 0 THEN [pool |-> p, err |-> col.err]
       ELSE IF col.err # ErrNil THEN [pool |-> a.pool, err |-> ErrOther]
       ELSE IF a.err # ErrNil /\ a.err # ErrAllocated
            THEN [pool |-> a.pool, err |-> ErrOther]
            ELSE [pool |-> a.pool, err |-> ErrNil]

PersistentIPsSync(p, objs) ==
    LET col == SyncCollect(objs, 1, <<>>)
    IN IF col.err # ErrNil THEN [pool |-> p, err |-> ErrOther]
       ELSE IF Len(col.ips) > 0
            THEN LET a == AllocateIPs(p, col.ips)
                 IN IF a.err # ErrNil /\ a.err # ErrAllocated
                    THEN [pool |-> a.pool, err |-> ErrOther]
                    ELSE [pool |-> a.pool, err |-> ErrNil]
            ELSE [pool |-> p, err |-> ErrNil]

\* ------------------------------------------------------- pod allocator
\* The operators below work on a record of the state they read and change:
\* [pool, ids, released, annot, claims, relIPs, relID].
\* An event's inputs are the record env: faults (the calls that fail during
\* the event), faultAt (the NAD whose calls they are), pickIP and pickID (what
\* the allocators hand out when they choose), stripped (the snapshot's
\* annotation was removed by hand).

Cur ==
    [pool |-> pool, ids |-> idAllocator, released |-> releasedPods,
     annot |-> annot, claims |-> claims, relIPs |-> relIPs, relID |-> relID]

Fault(env, nad, f) == nad = env.faultAt /\ f \in env.faults

\* watchFactory.GetPersistentIPs(namespace, name): the claim as cached, or an
\* error when there is none or the lookup fails.
GetPersistentIPs(s, env, nad, ref) ==
    IF Fault(env, nad, "lookup") \/ ~s.claims[ref].exists
    THEN [err |-> ErrOther, claim |-> NoClaim]
    ELSE [err |-> ErrNil, claim |-> s.claims[ref]]

\* util.UnmarshalPodAnnotation(pod.Annotations, nad) as the release path uses
\* it: nil when the pod carries no annotation for the NAD.
UnmarshalPodAnnotation(s, env, nad, uid) ==
    IF env.stripped THEN NoAnnotation ELSE s.annot[<<nad, uid>>]

\* a variant that does not consult the ledger of released pods
doReleaseFor_NoLedger(rp, nad, uid, releaseFromAllocator) == releaseFromAllocator

\* a variant that does not consult the caller's flag
doReleaseFor_IgnoresFlag(rp, nad, uid, releaseFromAllocator) ==
    ~isPodReleased(rp, nad, uid)

\* "do not release from the allocators if not flaged to do so or if they were
\* already previosuly released"
doReleaseFor(rp, nad, uid, releaseFromAllocator) ==
    releaseFromAllocator /\ ~isPodReleased(rp, nad, uid)

\* a variant that releases the addresses of a pod with a claim too
doReleaseIPsFor_IgnoresClaim(doRelease, hasPersistentIPs) == doRelease /\ hasIPAM

\* doReleaseIPs := doRelease && hasIPAM && !hasPersistentIPs
doReleaseIPsFor(doRelease, hasPersistentIPs) ==
    doRelease /\ hasIPAM /\ ~hasPersistentIPs

releasePodOnNAD(s, env, uid, nad, podDeleted, releaseFromAllocator) ==
    LET podAnnotation == UnmarshalPodAnnotation(s, env, nad, uid)
        ref == ClaimRefOf(uid, nad)
        hasPersistentIPs ==
            IF ref # "" THEN GetPersistentIPs(s, env, nad, ref).err = ErrNil
            ELSE FALSE
        doRelease == doReleaseFor(s.released, nad, uid, releaseFromAllocator)
        doReleaseIDs == doRelease /\ hasIDAllocation
        doReleaseIPs == doReleaseIPsFor(doRelease, hasPersistentIPs)
        key == <<nad, uid>>
        s1 == IF doReleaseIDs
              THEN [s EXCEPT !.ids = ReleaseID(s.ids, podIdAllocationName(nad, uid)),
                             !.relID[key] = Bump(s.relID[key])]
              ELSE s
        s2 == IF doReleaseIPs
              THEN [s1 EXCEPT !.relIPs[key] = Bump(s1.relIPs[key])]
              ELSE s1
        s3 == IF doReleaseIPs
              THEN [s2 EXCEPT !.pool = ReleaseIPs(s2.pool, podAnnotation.ips)]
              ELSE s2
        s4 == IF podDeleted
              THEN [s3 EXCEPT !.released = deleteReleasedPod(s3.released, nad, uid)]
              ELSE [s3 EXCEPT !.released = addReleasedPod(s3.released, nad, uid)]
    IN IF ~hasIPAM /\ ~hasIDAllocation THEN [s |-> s, err |-> ErrNil]
       ELSE IF doReleaseIPs /\ Fault(env, nad, "releaseIPs")
            THEN [s |-> s2, err |-> ErrOther]
            ELSE [s |-> s4, err |-> ErrNil]

\* a variant that goes on without a claim when the lookup fails
findIPAMClaim_IgnoresError(s, env, uid, nad) ==
    IF ClaimRefOf(uid, nad) # ""
    THEN [err |-> ErrNil, claim |-> GetPersistentIPs(s, env, nad, ClaimRefOf(uid, nad)).claim]
    ELSE [err |-> ErrNil, claim |-> NoClaim]

\* findIPAMClaim(pod, network)
findIPAMClaim(s, env, uid, nad) ==
    IF ClaimRefOf(uid, nad) # ""
    THEN LET got == GetPersistentIPs(s, env, nad, ClaimRefOf(uid, nad))
         IN IF got.err # ErrNil THEN [err |-> ErrOther, claim |-> NoClaim]
            ELSE [err |-> ErrNil, claim |-> got.claim]
    ELSE [err |-> ErrNil, claim |-> NoClaim]

\* podAnnotationAllocator.AllocatePodAnnotationWithTunnelID with reallocation
\* off: the addresses of the pod's annotation are reserved again (taken is
\* fine, they may be the pod's own), else the addresses of the claim's status,
\* else a free address is taken; the tunnel id of the annotation is reserved
\* again, else one is allocated for the name; the annotation is written when it
\* changed, and a failed write gives back what this attempt had allocated.
AllocatePodAnnotationWithTunnelID(s, env, uid, nad, useIPs, useIDs, ipamClaim) ==
    LET key == <<nad, uid>>
        name == podIdAllocationName(nad, uid)
        failed == [s |-> s, err |-> ErrOther, ips |-> {}, updated |-> FALSE]
        \* the annotation is written when it changed
        Update(cur, ipStep, idStep, new) ==
            IF ipStep.err # ErrNil THEN failed
            ELSE IF idStep.err # ErrNil THEN failed
            ELSE IF new # cur /\ Fault(env, nad, "annotWrite") THEN failed
            ELSE [s |-> [s EXCEPT !.pool = ipStep.pool, !.ids = idStep.ids,
                                  !.annot[key] = new],
                  err |-> ErrNil, ips |-> new.ips, updated |-> new # cur]
        Annotate(cur, ipStep, idStep) ==
            Update(cur, ipStep, idStep,
                   [present |-> TRUE, ips |-> ipStep.ips, tid |-> idStep.id])
        \* the tunnel id
        IDStep(cur, reservedID) ==
            IF ~useIDs THEN [ids |-> s.ids, id |-> 0, err |-> ErrNil]
            ELSE IF cur.present /\ cur.tid # 0
                 THEN [ids |-> reservedID.ids, id |-> cur.tid, err |-> reservedID.err]
                 ELSE AllocateID(s.ids, name, env.pickID)
        \* the addresses
        IPStep(cur, hasIPAMClaim, parsed, wanted, reserved, free) ==
            IF ~useIPs THEN [pool |-> s.pool, ips |-> {}, err |-> ErrNil]
            ELSE IF ~(cur.present /\ cur.ips # {}) /\ hasIPAMClaim /\ parsed.err # ErrNil
                 THEN [pool |-> s.pool, ips |-> {}, err |-> ErrOther]
            ELSE IF Len(wanted) > 0
                 THEN IF reserved.err \in {ErrNil, ErrAllocated}
                      THEN [pool |-> reserved.pool, ips |-> Range(wanted), err |-> ErrNil]
                      ELSE [pool |-> s.pool, ips |-> {}, err |-> ErrOther]
            ELSE IF free # {}
                 THEN [pool |-> s.pool \cup {PickFrom(free, env.pickIP)},
                       ips |-> {PickFrom(free, env.pickIP)}, err |-> ErrNil]
                 ELSE [pool |-> s.pool, ips |-> {}, err |-> ErrOther]
        Wanted(cur, hasIPAMClaim, parsed) ==
            IF cur.present /\ cur.ips # {} THEN SetToSeq(cur.ips)
            ELSE IF hasIPAMClaim /\ parsed.err = ErrNil THEN parsed.ips
            ELSE <<>>
        Reserve(cur, hasIPAMClaim, parsed, wanted) ==
            IPStep(cur, hasIPAMClaim, parsed, wanted, AllocateIPs(s.pool, wanted),
                   IPs \ s.pool)
        Allocate(cur, hasIPAMClaim, parsed) ==
            Annotate(cur,
                     Reserve(cur, hasIPAMClaim, parsed, Wanted(cur, hasIPAMClaim, parsed)),
                     IDStep(cur, ReserveID(s.ids, name, cur.tid)))
    IN Allocate(s.annot[key], ipamClaim.exists /\ Len(ipamClaim.ips) > 0,
                ParseIPNets(ipamClaim.ips))

allocatePodOnNAD(s, env, uid, nad) ==
    LET \* the claim status is written when the pod has a claim
        Written(ipamClaim, a, r) ==
            IF ipamClaim.exists /\ hasIPAM
            THEN [s |-> [a.s EXCEPT !.claims = r.claims], err |-> r.err]
            ELSE [s |-> a.s, err |-> ErrNil]
        Allocated(found, a) ==
            IF found.err # ErrNil THEN [s |-> s, err |-> ErrOther]
            ELSE IF a.err # ErrNil THEN [s |-> a.s, err |-> ErrOther]
            ELSE Written(found.claim, a,
                         PersistentIPsReconcile(a.s.claims, ClaimRefOf(uid, nad),
                                                found.claim, StringSlice(a.ips),
                                                Fault(env, nad, "claimWrite")))
        Found(found) ==
            Allocated(found,
                      AllocatePodAnnotationWithTunnelID(s, env, uid, nad, hasIPAM,
                                                        hasIDAllocation, found.claim))
    IN Found(IF hasIPAM THEN findIPAMClaim(s, env, uid, nad)
             ELSE [err |-> ErrNil, claim |-> NoClaim])

\* a variant that sends a completed pod that is not deleted to the allocate
\* path
reconcileForNAD_DeletedOnly(s, env, uid, snap, podDeleted, nad, releaseIPsFromAllocator) ==
    LET Took(r, path) == [s |-> r.s, err |-> r.err, path |-> path]
    IN IF podDeleted
       THEN Took(releasePodOnNAD(s, env, uid, nad, podDeleted, releaseIPsFromAllocator),
                 "release")
       ELSE Took(allocatePodOnNAD(s, env, uid, nad), "allocate")

\* A pod snapshot is [sched, hostNet, completed]; podDeleted says that the
\* event carries no new pod (the snapshot is then the old one).
reconcileForNAD(s, env, uid, snap, podDeleted, nad, releaseIPsFromAllocator) ==
    LET Took(r, path) == [s |-> r.s, err |-> r.err, path |-> path]
    IN IF snap.completed \/ podDeleted
       THEN Took(releasePodOnNAD(s, env, uid, nad, podDeleted, releaseIPsFromAllocator),
                 "release")
       ELSE Took(allocatePodOnNAD(s, env, uid, nad), "allocate")

\* a variant of the loop that goes on with the remaining NADs after an error
\* and returns the first error
RECURSIVE reconcileNADs_Continues(_, _, _, _, _, _, _, _)
reconcileNADs_Continues(s, env, uid, snap, podDeleted, order, i, releaseFromAllocator) ==
    IF i > Len(order) THEN [s |-> s, err |-> ErrNil, paths |-> {}, failedAt |-> ""]
    ELSE LET Rest(r, rest) ==
                 [s |-> rest.s,
                  err |-> IF r.err # ErrNil THEN r.err ELSE rest.err,
                  paths |-> {<<order[i], r.path>>} \cup rest.paths,
                  failedAt |-> IF r.err # ErrNil THEN order[i] ELSE rest.failedAt]
             Handled(r) ==
                 Rest(r, reconcileNADs_Continues(r.s, env, uid, snap, podDeleted, order,
                                                 i + 1, releaseFromAllocator))
         IN Handled(reconcileForNAD(s, env, uid, snap, podDeleted, order[i],
                                    releaseFromAllocator))

\* the loop over the NADs of the pod, in the order the map yields them
RECURSIVE reconcileNADs(_, _, _, _, _, _, _, _)
reconcileNADs(s, env, uid, snap, podDeleted, order, i, releaseFromAllocator) ==
    IF i > Len(order) THEN [s |-> s, err |-> ErrNil, paths |-> {}, failedAt |-> ""]
    ELSE LET Rest(r, rest) ==
                 [s |-> rest.s, err |-> rest.err,
                  paths |-> {<<order[i], r.path>>} \cup rest.paths,
                  failedAt |-> rest.failedAt]
             Handled(r) ==
                 IF r.err # ErrNil
                 THEN [s |-> r.s, err |-> r.err, paths |-> {<<order[i], r.path>>},
                       failedAt |-> order[i]]
                 ELSE Rest(r, reconcileNADs(r.s, env, uid, snap, podDeleted, order,
                                            i + 1, releaseFromAllocator))
         IN Handled(reconcileForNAD(s, env, uid, snap, podDeleted, order[i],
                                    releaseFromAllocator))

\* reconcile(old, new, releaseFromAllocator); order is the pod's NADs on this
\* network (empty when the pod is not on it).
reconcile(s, env, uid, snap, podDeleted, order, releaseFromAllocator) ==
    IF ~snap.sched \/ snap.hostNet
    THEN [s |-> s, err |-> ErrNil, paths |-> {}, failedAt |-> ""]
    ELSE IF Len(order) = 0
    THEN [s |-> s, err |-> ErrNil, paths |-> {}, failedAt |-> ""]
    ELSE reconcileNADs(s, env, uid, snap, podDeleted, order, 1, releaseFromAllocator)

\* --------------------------------------------------------------- monitors
\* What an event tells of the pod: the stage of its snapshot.
EventStage(snap, podDeleted) ==
    IF podDeleted THEN "deleted"
    ELSE IF snap.completed THEN "completed"
    ELSE "active"

StageRank(st) ==
    CASE st = "none" -> 0
      [] st = "active" -> 1
      [] st = "completed" -> 2
      [] st = "deleted" -> 3

LaterStage(a, b) == IF StageRank(a) >= StageRank(b) THEN a ELSE b

\* life[key] follows the events this run of the controller handled for the
\* key (NAD, pod UID): "none", "active" (allocate events only), "comp" (then
\* one or more completed events), "del" (a delete with no completed event
\* before it), "compdel" (completed events, then one delete), "synccomp" (the
\* startup Sync saw the pod completed), "synccompdel" (then one delete),
\* "relfail" (a release event failed), "irr" (anything else: an event after
\* the delete, an allocate event after a release event, a release event whose
\* snapshot had lost its annotation).
LifeNext(l, k, err, stripped) ==
    IF l \in {"relfail", "irr"} THEN l
    ELSE IF k # "active" /\ err # ErrNil THEN "relfail"
    ELSE IF k # "active" /\ stripped THEN "irr"
    ELSE IF k = "active" THEN (IF l \in {"none", "active"} THEN "active" ELSE "irr")
    ELSE IF k = "completed"
         THEN (IF l \in {"none", "active", "comp"} THEN "comp"
               ELSE IF l = "synccomp" THEN "synccomp"
               ELSE "irr")
    ELSE (IF l \in {"none", "active"} THEN "del"
          ELSE IF l = "comp" THEN "compdel"
          ELSE IF l = "synccomp" THEN "synccompdel"
          ELSE "irr")

\* the life of every key after a call that handled the NADs of `paths`
LivesAfter(uid, k, r, stripped) ==
    [key \in Keys |->
        IF key[2] = uid /\ (\E p \in {"allocate", "release"} : <<key[1], p>> \in r.paths)
        THEN LifeNext(life[key], k,
                      IF r.failedAt = key[1] THEN r.err ELSE ErrNil, stripped)
        ELSE life[key]]

\* ---------------------------------------------------------------- actions
Snapshots == [sched : BOOLEAN, hostNet : BOOLEAN, completed : BOOLEAN]
RoutedSnapshots == {sn \in Snapshots : sn.sched /\ ~sn.hostNet}
Routed(snap, order) == snap.sched /\ ~snap.hostNet /\ Len(order) > 0

DefaultEnv ==
    [faults |-> {}, faultAt |-> "n1", pickIP |-> 1, pickID |-> 1, stripped |-> FALSE]

\* a pod with an attachment that references a claim, on a network with IPAM
HasRef(uid, nads) == hasIPAM /\ \E nad \in nads : ClaimRefOf(uid, nad) # ""

\* The inputs that can make a difference to an event of pod uid on the
\* attachments nads: a failure of a call the event can reach, a choice of the
\* allocators when the pod has an attachment without address or tunnel id, a
\* removed annotation when there is one.
AllocEnvs(uid, nads, faultSets) ==
    [faults : faultSets \cap ({{}, {"annotWrite"}} \cup
                              (IF HasRef(uid, nads) THEN {{"lookup"}, {"claimWrite"}}
                               ELSE {})),
     faultAt : nads,
     pickIP : IF hasIPAM /\ \E nad \in nads : annot[<<nad, uid>>].ips = {}
              THEN IPs ELSE {1},
     pickID : IF hasIDAllocation /\ \E nad \in nads : annot[<<nad, uid>>].tid = 0
              THEN 1..MaxID ELSE {1},
     stripped : {FALSE}]

ReleaseEnvs(uid, nads, faultSets) ==
    [faults : faultSets \cap ({{}} \cup
                              (IF HasRef(uid, nads) THEN {{"lookup"}, {"lookup", "releaseIPs"}}
                               ELSE {}) \cup
                              (IF hasIPAM THEN {{"releaseIPs"}} ELSE {})),
     faultAt : nads, pickIP : {1}, pickID : {1},
     stripped : IF \E nad \in nads : annot[<<nad, uid>>].present
                THEN BOOLEAN ELSE {FALSE}]

AllFaultSets ==
    {{}, {"lookup"}, {"annotWrite"}, {"claimWrite"}, {"releaseIPs"},
     {"lookup", "releaseIPs"}}

EnvsFor(uid, snap, podDeleted, order, faultSets) ==
    IF ~Routed(snap, order) THEN {DefaultEnv}
    ELSE IF snap.completed \/ podDeleted THEN ReleaseEnvs(uid, Range(order), faultSets)
    ELSE AllocEnvs(uid, Range(order), faultSets)

Apply(s) ==
    /\ pool' = s.pool
    /\ idAllocator' = s.ids
    /\ releasedPods' = s.released
    /\ annot' = s.annot
    /\ claims' = s.claims
    /\ relIPs' = s.relIPs
    /\ relID' = s.relID

NoSnapshot == [sched |-> FALSE, hostNet |-> FALSE, completed |-> FALSE]
NoOp == [op |-> "Init", uid |-> 0, snap |-> NoSnapshot, deleted |-> FALSE,
         order |-> <<>>, err |-> ErrNil, paths |-> {}, failedAt |-> "",
         faults |-> {}, faultAt |-> "", stripped |-> FALSE, failedPods |-> {}]

Init ==
    /\ hasIPAM \in BOOLEAN
    /\ hasIDAllocation \in BOOLEAN
    /\ pool = {}
    /\ idAllocator = IF hasIDAllocation THEN (ZeroName :> 0) ELSE << >>
    /\ releasedPods = << >>
    /\ annot = [k \in Keys |-> NoAnnotation]
    /\ claims = [c \in ClaimNames |-> [exists |-> TRUE, ips |-> <<>>, rv |-> 0]]
    /\ phase = [u \in Pods |-> "none"]
    /\ life = [k \in Keys |-> "none"]
    /\ relIPs = [k \in Keys |-> 0]
    /\ relID = [k \in Keys |-> 0]
    /\ stale = 0
    /\ lastOp = NoOp
    /\ workers = [w \in Workers |-> Idle]

\* An event that the cluster's history does not deliver in order: one of a
\* stage the pod has left, or a second delete.
OutOfOrder(uid, snap, podDeleted) ==
    \/ StageRank(EventStage(snap, podDeleted)) < StageRank(phase[uid])
    \/ podDeleted /\ phase[uid] = "deleted"

\* PodAllocator.Reconcile(old, new): one lifecycle event of pod uid. The
\* snapshot is new, or old when new is nil (podDeleted). traced says what
\* lastOp records of the call: "no" nothing, "op" that it was made, "full"
\* its inputs and what it returned.
PodReconcile(uid, snap, podDeleted, order, env, traced) ==
    /\ \A nad \in Range(order) :
          relIPs[<<nad, uid>>] < MaxCount /\ relID[<<nad, uid>>] < MaxCount
    /\ Routed(snap, order) /\ OutOfOrder(uid, snap, podDeleted) => stale < MaxStale
    /\ LET Returned(r, k) ==
          /\ Apply(r.s)
          /\ life' = LivesAfter(uid, k, r, env.stripped)
          /\ phase' = IF Routed(snap, order)
                      THEN [phase EXCEPT ![uid] = LaterStage(phase[uid], k)]
                      ELSE phase
          /\ stale' = IF Routed(snap, order) /\ OutOfOrder(uid, snap, podDeleted)
                      THEN stale + 1 ELSE stale
          /\ lastOp' = IF traced = "no" THEN lastOp
                       ELSE IF traced = "op" THEN [NoOp EXCEPT !.op = "PodReconcile"]
                       ELSE [op |-> "PodReconcile", uid |-> uid, snap |-> snap,
                             deleted |-> podDeleted, order |-> order, err |-> r.err,
                             paths |-> r.paths, failedAt |-> r.failedAt,
                             faults |-> IF Routed(snap, order) THEN env.faults ELSE {},
                             faultAt |-> IF Routed(snap, order) /\ env.faults # {}
                                         THEN env.faultAt ELSE "",
                             stripped |-> env.stripped,
                             failedPods |-> IF r.err # ErrNil THEN {uid} ELSE {}]
       IN Returned(reconcile(Cur, env, uid, snap, podDeleted, order, TRUE),
                   EventStage(snap, podDeleted))
    /\ UNCHANGED <<workers, hasIPAM, hasIDAllocation>>

\* The IPAMClaim is removed from the cluster and the claim controller hands it
\* to Allocator.Delete.
ClaimDelete(c, traced) ==
    /\ hasIPAM
    /\ claims[c].exists
    /\ pool' = PersistentIPsDelete(pool, claims[c].ips).pool
    /\ claims' = [claims EXCEPT ![c].exists = FALSE]
    /\ lastOp' = IF traced = "no" THEN lastOp ELSE [NoOp EXCEPT !.op = "ClaimDelete"]
    /\ UNCHANGED <<workers, hasIPAM, hasIDAllocation, idAllocator, releasedPods, annot,
                   phase, life, relIPs, relID, stale>>

\* The lifecycle events of the pods of a network with one attachment each, in
\* any order, and the removal of claims.
Next ==
    \/ \E uid \in Pods, snap \in RoutedSnapshots, podDeleted \in BOOLEAN :
         \E env \in EnvsFor(uid, snap, podDeleted, <<"n1">>, AllFaultSets) :
            PodReconcile(uid, snap, podDeleted, <<"n1">>, env, "no")
    \/ \E c \in ClaimNames : ClaimDelete(c, "no")

Spec == Init /\ [][Next]_vars

\* ------------------------------------------------------------ startup Sync
\* PodAllocator.Sync(objs): an object is [isPod, uid, snap]; one that is no pod
\* is skipped, and the error of a pod's reconcile is logged and dropped. envs
\* gives the inputs of each pod's reconcile.
RECURSIVE SyncPods(_, _, _, _, _)
SyncPods(s, objs, envs, order, i) ==
    IF i > Len(objs) THEN [s |-> s, err |-> ErrNil, handled |-> {}, failedPods |-> {}]
    ELSE IF ~objs[i].isPod THEN SyncPods(s, objs, envs, order, i + 1)
    ELSE LET Rest(r, rest) ==
                 [s |-> rest.s, err |-> ErrNil,
                  handled |-> {<<objs[i].uid, pth>> : pth \in r.paths} \cup rest.handled,
                  failedPods |-> (IF r.err # ErrNil THEN {objs[i].uid} ELSE {})
                                    \cup rest.failedPods]
             Handled(r) == Rest(r, SyncPods(r.s, objs, envs, order, i + 1))
         IN Handled(reconcile(s, envs[i], objs[i].uid, objs[i].snap, FALSE, order,
                              FALSE))

\* the life of a key after Sync handled it
LifeSynced(l, path) ==
    IF path = "allocate"
    THEN (IF l \in {"none", "active"} THEN "active" ELSE "irr")
    ELSE (IF l \in {"none", "active", "synccomp"} THEN "synccomp" ELSE "irr")

PodSync(objs, envs) ==
    /\ LET Returned(r) ==
          /\ Apply(r.s)
          /\ life' = [key \in Keys |->
                        IF \E h \in r.handled : h[1] = key[2] /\ h[2][1] = key[1]
                        THEN LifeSynced(life[key],
                                (CHOOSE h \in r.handled :
                                    h[1] = key[2] /\ h[2][1] = key[1])[2][2])
                        ELSE life[key]]
          /\ lastOp' = [op |-> "PodSync", uid |-> 0, snap |-> NoSnapshot,
                        deleted |-> FALSE, order |-> <<>>, err |-> r.err,
                        paths |-> {h[2] : h \in r.handled}, failedAt |-> "",
                        faults |-> {}, faultAt |-> "", stripped |-> FALSE,
                        failedPods |-> r.failedPods]
       IN Returned(SyncPods(Cur, objs, envs, <<"n1">>, 1))
    /\ UNCHANGED <<workers, hasIPAM, hasIDAllocation, phase, stale>>

\* The controller restarts: NewPodAllocator and Init build the allocators anew,
\* what is persisted on the cluster stays.
Restart ==
    /\ pool' = {}
    /\ idAllocator' = IF hasIDAllocation THEN (ZeroName :> 0) ELSE << >>
    /\ releasedPods' = << >>
    /\ life' = [k \in Keys |-> "none"]
    /\ relIPs' = [k \in Keys |-> 0]
    /\ relID' = [k \in Keys |-> 0]
    /\ lastOp' = [NoOp EXCEPT !.op = "Restart"]
    /\ UNCHANGED <<workers, hasIPAM, hasIDAllocation, annot, claims, phase, stale>>

\* A pod reaches its final phase on the cluster and the controller has not
\* been handed the event yet.
PodCompletes(uid) ==
    /\ phase[uid] = "active"
    /\ phase' = [phase EXCEPT ![uid] = "completed"]
    /\ lastOp' = [NoOp EXCEPT !.op = "PodCompletes"]
    /\ UNCHANGED <<workers, hasIPAM, hasIDAllocation, pool, idAllocator, releasedPods, annot,
                   claims, life, relIPs, relID, stale>>

\* the pods that exist on the cluster, as the lister shows them
ExistingPods == {u \in Pods : phase[u] \in {"active", "completed"}}
PodObject(u) ==
    [isPod |-> TRUE, uid |-> u,
     snap |-> [sched |-> TRUE, hostNet |-> FALSE, completed |-> phase[u] = "completed"]]
NotAPod == [isPod |-> FALSE, uid |-> 0, snap |-> NoSnapshot]

Perms(S) ==
    {f \in [1..Cardinality(S) -> S] : \A i, j \in 1..Cardinality(S) : f[i] = f[j] => i = j}

\* the lists Sync is handed: the existing pods in any order, and a list that
\* holds an object that is no pod
SyncLists ==
    {[i \in 1..Len(f) |-> PodObject(f[i])] : f \in Perms(ExistingPods)}
        \cup {<<NotAPod>>}

\* the failures a reconcile made by Sync can meet: with releaseFromAllocator
\* false ReleaseIPs is not reached
SyncFaultSets == {{}, {"lookup"}, {"annotWrite"}, {"claimWrite"}}

\* the inputs of the reconciles of one Sync, of which at most one meets a
\* failure
RECURSIVE SyncEnvs(_, _)
SyncEnvs(objs, faultSets) ==
    IF Len(objs) = 0 THEN {<<>>}
    ELSE IF ~objs[1].isPod
    THEN {<<DefaultEnv>> \o rest : rest \in SyncEnvs(Tail(objs), faultSets)}
    ELSE {<<e>> \o rest :
            e \in EnvsFor(objs[1].uid, objs[1].snap, FALSE, <<"n1">>, {{}}),
            rest \in SyncEnvs(Tail(objs), faultSets)}
         \cup
         {<<e>> \o rest :
            e \in EnvsFor(objs[1].uid, objs[1].snap, FALSE, <<"n1">>, faultSets \ {{}}),
            rest \in SyncEnvs(Tail(objs), {{}})}

\* Live events in the order of the cluster's history, without failures, with
\* Sync and restarts of the controller between them.
NextSync ==
    \/ \E uid \in Pods, snap \in RoutedSnapshots, podDeleted \in BOOLEAN :
         \E env \in EnvsFor(uid, snap, podDeleted, <<"n1">>, {{}}) :
            /\ ~OutOfOrder(uid, snap, podDeleted)
            /\ ~env.stripped
            /\ PodReconcile(uid, snap, podDeleted, <<"n1">>, env, "op")
    \/ \E objs \in SyncLists : \E envs \in SyncEnvs(objs, SyncFaultSets) : PodSync(objs, envs)
    \/ \E uid \in Pods : PodCompletes(uid)
    \/ Restart

SpecSync == Init /\ [][NextSync]_vars

\* ------------------------------------------------- persistent IPs allocator
\* The calls of the claim controller and of the pod allocator into the
\* persistent IPs allocator, on their own.

\* the lists of status strings of a claim
RECURSIVE StringLists(_)
StringLists(n) ==
    IF n = 0 THEN {<<>>}
    ELSE StringLists(n - 1) \cup
         {Append(l, x) : l \in {m \in StringLists(n - 1) : Len(m) = n - 1}, x \in IPStrings}

\* The claim object a caller of Reconcile holds: the claim as it is now, or as
\* it was created (status empty), which a second pod or a late worker may
\* still hold.
ClaimSnapshots(c) ==
    {[exists |-> TRUE, ips |-> claims[c].ips, rv |-> claims[c].rv],
     [exists |-> TRUE, ips |-> <<>>, rv |-> 0]}

\* Allocator.Reconcile(ipamClaim, ips) with the claim object snap; fails says
\* that the API server is not reachable for the write.
ClaimReconcile(c, snap, ips, fails) ==
    /\ claims[c].rv < MaxRV
    /\ LET r == PersistentIPsReconcile(claims, c, snap, ips, fails)
       IN /\ claims' = r.claims
          /\ lastOp' = [op |-> "ClaimReconcile", claim |-> c, snap |-> snap,
                        ips |-> ips, fails |-> fails, err |-> r.err,
                        writes |-> r.writes]
    /\ UNCHANGED <<workers, hasIPAM, hasIDAllocation, pool, idAllocator, releasedPods, annot,
                   phase, life, relIPs, relID, stale>>

NotAClaim == [isClaim |-> FALSE, ips |-> <<>>]
ClaimObject(ips) == [isClaim |-> TRUE, ips |-> ips]

\* The lists Allocator.Sync is handed: the claim of the model as the lister
\* shows it, alone or next to another object, which is a claim of the same
\* network that records at most one address, or no claim at all.
ClaimSyncLists ==
    LET own == {ClaimObject(claims[c].ips) : c \in {d \in ClaimNames : claims[d].exists}}
        others == {NotAClaim} \cup {ClaimObject(l) : l \in StringLists(1)}
    IN {<<>>} \cup {<<o>> : o \in own \cup others}
              \cup {<<o, x>> : o \in own, x \in others}
              \cup {<<x, o>> : o \in own, x \in others}

\* Allocator.Sync(objs)
ClaimSync(objs) ==
    /\ LET r == PersistentIPsSync(pool, objs)
       IN /\ pool' = r.pool
          /\ lastOp' = [op |-> "ClaimSync", objs |-> objs, err |-> r.err,
                        before |-> pool]
    /\ UNCHANGED <<workers, hasIPAM, hasIDAllocation, idAllocator, releasedPods, annot,
                   claims, phase, life, relIPs, relID, stale>>

\* Allocator.Delete(pips) for a claim that was removed from the cluster; the
\* delete event may be handed over more than once (again).
ClaimRelease(c) ==
    /\ LET r == PersistentIPsDelete(pool, claims[c].ips)
       IN /\ pool' = r.pool
          /\ lastOp' = [op |-> "ClaimRelease", claim |-> c, ips |-> claims[c].ips,
                        again |-> ~claims[c].exists, before |-> pool, err |-> r.err]
    /\ claims' = [claims EXCEPT ![c].exists = FALSE]
    /\ UNCHANGED <<workers, hasIPAM, hasIDAllocation, idAllocator, releasedPods, annot,
                   phase, life, relIPs, relID, stale>>

\* a network with IPAM whose pool holds the addresses of other users
InitPIPs ==
    /\ hasIPAM = TRUE
    /\ hasIDAllocation = FALSE
    /\ pool \in SUBSET IPs
    /\ idAllocator = << >>
    /\ releasedPods = << >>
    /\ annot = [k \in Keys |-> NoAnnotation]
    /\ claims = [c \in ClaimNames |-> [exists |-> TRUE, ips |-> <<>>, rv |-> 0]]
    /\ phase = [u \in Pods |-> "none"]
    /\ life = [k \in Keys |-> "none"]
    /\ relIPs = [k \in Keys |-> 0]
    /\ relID = [k \in Keys |-> 0]
    /\ stale = 0
    /\ lastOp = NoOp
    /\ workers = [w \in Workers |-> Idle]

NextPIPs ==
    \/ \E c \in ClaimNames, ips \in StringLists(MaxClaimIPs), fails \in BOOLEAN :
         \E snap \in ClaimSnapshots(c) : ClaimReconcile(c, snap, ips, fails)
    \/ \E objs \in ClaimSyncLists : ClaimSync(objs)
    \/ \E c \in ClaimNames : ClaimRelease(c)

SpecPIPs == InitPIPs /\ [][NextPIPs]_vars

\* ------------------------------------------------------------ classification
\* The events Reconcile can be handed for one pod, the one that references a
\* claim: any snapshot, in any order, of a pod that is on this network with
\* one attachment or not on it at all.
ClassifyPods == {u \in Pods : ClaimRefOf(u, "n1") # ""}
NADOrders == {<<>>, <<"n1">>}
ClassifyFaultSets == {{}, {"lookup"}, {"releaseIPs"}}

NextClassify ==
    \E uid \in ClassifyPods, snap \in Snapshots, podDeleted \in BOOLEAN,
       order \in NADOrders :
       \E env \in EnvsFor(uid, snap, podDeleted, order, ClassifyFaultSets) :
          PodReconcile(uid, snap, podDeleted, order, env, "full")

SpecClassify == Init /\ [][NextClassify]_vars

\* ------------------------------------------------------------ traced events
\* The events of Next for pods with one attachment in the order of the
\* cluster's history, each recorded in lastOp with its inputs and what it
\* returned, and the removal of claims.
NextTraced ==
    \/ \E uid \in Pods, snap \in RoutedSnapshots, podDeleted \in BOOLEAN :
         \E env \in EnvsFor(uid, snap, podDeleted, <<"n1">>, AllFaultSets) :
            /\ ~OutOfOrder(uid, snap, podDeleted)
            /\ PodReconcile(uid, snap, podDeleted, <<"n1">>, env, "full")
    \/ \E c \in ClaimNames : ClaimDelete(c, "op")

SpecTraced == Init /\ [][NextTraced]_vars

\* ------------------------------------------------------- several attachments
\* The events of the pod that references a claim when it has both NADs on the
\* network; the map of the pod's attachments yields the NADs in either order.
MultiOrders == {<<"n1", "n2">>, <<"n2", "n1">>}
MultiFaultSets == {{}, {"lookup"}, {"annotWrite"}, {"claimWrite"}, {"releaseIPs"}}

NextMulti ==
    \E uid \in ClassifyPods, snap \in RoutedSnapshots, podDeleted \in BOOLEAN,
       order \in MultiOrders :
       \E env \in EnvsFor(uid, snap, podDeleted, order, MultiFaultSets) :
          PodReconcile(uid, snap, podDeleted, order, env, "full")

SpecMulti == Init /\ [][NextMulti]_vars

\* ------------------------------------------------------------ release ledger
\* The three operations of the ledger on their own. In this specification
\* life[key] is the last ledger call made for the key: "marked" after
\* addReleasedPod, "unmarked" after deleteReleasedPod.
LedgerAdd(nad, uid) ==
    /\ releasedPods' = addReleasedPod(releasedPods, nad, uid)
    /\ life' = [life EXCEPT ![<<nad, uid>>] = "marked"]
    /\ lastOp' = [op |-> "addReleasedPod", nad |-> nad, uid |-> uid]
    /\ UNCHANGED <<workers, hasIPAM, hasIDAllocation, pool, idAllocator, annot,
                   claims, phase, relIPs, relID, stale>>

LedgerDelete(nad, uid) ==
    /\ releasedPods' = deleteReleasedPod(releasedPods, nad, uid)
    /\ life' = [life EXCEPT ![<<nad, uid>>] = "unmarked"]
    /\ lastOp' = [op |-> "deleteReleasedPod", nad |-> nad, uid |-> uid]
    /\ UNCHANGED <<workers, hasIPAM, hasIDAllocation, pool, idAllocator, annot,
                   claims, phase, relIPs, relID, stale>>

NextLedger ==
    \/ \E nad \in NADs, uid \in Pods : LedgerAdd(nad, uid)
    \/ \E nad \in NADs, uid \in Pods : LedgerDelete(nad, uid)

SpecLedger == Init /\ [][NextLedger]_vars

\* ------------------------------------------------- concurrent release path
\* Goroutines inside releasePodOnNAD for pods with one attachment "n1" on a
\* network where every pod holds an address and a tunnel id. Each call of the
\* ledger and of the allocators is atomic; the goroutines interleave between
\* the calls. stale counts the events started.
InitConc ==
    /\ hasIPAM \in BOOLEAN
    /\ hasIDAllocation \in BOOLEAN
    /\ hasIPAM \/ hasIDAllocation
    /\ pool = IF hasIPAM THEN {u \in Pods : u \in IPs} ELSE {}
    /\ idAllocator = IF hasIDAllocation
                     THEN [n \in {ZeroName} \cup {podIdAllocationName("n1", u) : u \in Pods}
                              |-> IF n = ZeroName THEN 0 ELSE n[2]]
                     ELSE << >>
    /\ releasedPods = << >>
    /\ annot = [k \in Keys |->
                  IF k[1] = "n1"
                  THEN [present |-> TRUE,
                        ips |-> IF hasIPAM /\ k[2] \in IPs THEN {k[2]} ELSE {},
                        tid |-> IF hasIDAllocation THEN k[2] ELSE 0]
                  ELSE NoAnnotation]
    /\ claims = [c \in ClaimNames |-> [exists |-> TRUE, ips |-> <<>>, rv |-> 0]]
    /\ phase = [u \in Pods |-> "active"]
    /\ life = [k \in Keys |-> IF k[1] = "n1" THEN "active" ELSE "none"]
    /\ relIPs = [k \in Keys |-> 0]
    /\ relID = [k \in Keys |-> 0]
    /\ stale = 0
    /\ lastOp = NoOp
    /\ workers = [w \in Workers |-> Idle]

\* a goroutine enters releasePodOnNAD for an event of pod uid (allocator.go
\* 193-215): the claim lookup is made here
ReleaseStart(w, uid, podDeleted) ==
    /\ workers[w].pc = "idle"
    /\ stale < MaxStarts
    /\ stale' = stale + 1
    /\ workers' = [workers EXCEPT ![w] =
                      [pc |-> "check", uid |-> uid, deleted |-> podDeleted,
                       doRelease |-> FALSE,
                       hasPersistentIPs |-> ClaimRefOf(uid, "n1") # "" /\
                                            claims[ClaimRefOf(uid, "n1")].exists]]
    /\ phase' = [phase EXCEPT ![uid] =
                    LaterStage(phase[uid], IF podDeleted THEN "deleted" ELSE "completed")]
    /\ UNCHANGED <<hasIPAM, hasIDAllocation, pool, idAllocator, releasedPods, annot,
                   claims, life, relIPs, relID, lastOp>>

\* doRelease := releaseFromAllocator && !a.isPodReleased(nad, uid)
ReleaseCheck(w) ==
    /\ workers[w].pc = "check"
    /\ workers' = [workers EXCEPT ![w].pc = "releaseID",
                                  ![w].doRelease =
                                      doReleaseFor(releasedPods, "n1", workers[w].uid, TRUE)]
    /\ UNCHANGED <<hasIPAM, hasIDAllocation, pool, idAllocator, releasedPods, annot,
                   claims, phase, life, relIPs, relID, stale, lastOp>>

\* if doReleaseIDs { a.idAllocator.ReleaseID(name) }
ReleaseIDStep(w) ==
    /\ workers[w].pc = "releaseID"
    /\ LET key == <<"n1", workers[w].uid>>
           doReleaseIDs == workers[w].doRelease /\ hasIDAllocation
       IN /\ idAllocator' = IF doReleaseIDs
                            THEN ReleaseID(idAllocator, podIdAllocationName(key[1], key[2]))
                            ELSE idAllocator
          /\ relID' = IF doReleaseIDs THEN [relID EXCEPT ![key] = Bump(relID[key])]
                      ELSE relID
    /\ workers' = [workers EXCEPT ![w].pc = "releaseIPs"]
    /\ UNCHANGED <<hasIPAM, hasIDAllocation, pool, releasedPods, annot, claims, phase,
                   life, relIPs, stale, lastOp>>

\* if doReleaseIPs { a.ipAllocator.ReleaseIPs(...) }
ReleaseIPsStep(w) ==
    /\ workers[w].pc = "releaseIPs"
    /\ LET key == <<"n1", workers[w].uid>>
           doReleaseIPs == workers[w].doRelease /\ hasIPAM /\ ~workers[w].hasPersistentIPs
       IN /\ pool' = IF doReleaseIPs THEN ReleaseIPs(pool, annot[key].ips) ELSE pool
          /\ relIPs' = IF doReleaseIPs THEN [relIPs EXCEPT ![key] = Bump(relIPs[key])]
                       ELSE relIPs
    /\ workers' = [workers EXCEPT ![w].pc = "ledger"]
    /\ UNCHANGED <<hasIPAM, hasIDAllocation, idAllocator, releasedPods, annot, claims,
                   phase, life, relID, stale, lastOp>>

\* if podDeleted { deleteReleasedPod } else { addReleasedPod }; the goroutine
\* leaves. life[key] becomes "del" when a delete event has been processed.
ReleaseLedgerStep(w) ==
    /\ workers[w].pc = "ledger"
    /\ LET key == <<"n1", workers[w].uid>>
       IN /\ releasedPods' = IF workers[w].deleted
                             THEN deleteReleasedPod(releasedPods, key[1], key[2])
                             ELSE addReleasedPod(releasedPods, key[1], key[2])
          /\ life' = IF workers[w].deleted THEN [life EXCEPT ![key] = "del"]
                     ELSE IF life[key] = "del" THEN life
                     ELSE [life EXCEPT ![key] = "comp"]
    /\ workers' = [workers EXCEPT ![w] = Idle]
    /\ UNCHANGED <<hasIPAM, hasIDAllocation, pool, idAllocator, annot, claims, phase,
                   relIPs, relID, stale, lastOp>>

NextConc ==
    \/ \E w \in Workers, uid \in Pods, podDeleted \in BOOLEAN :
          ReleaseStart(w, uid, podDeleted)
    \/ \E w \in Workers : ReleaseCheck(w)
    \/ \E w \in Workers : ReleaseIDStep(w)
    \/ \E w \in Workers : ReleaseIPsStep(w)
    \/ \E w \in Workers : ReleaseLedgerStep(w)

SpecConc == InitConc /\ [][NextConc]_vars

\* ------------------------------------------------------------------ claims
OtherHolders(key) ==
    UNION {annot[k2].ips : k2 \in Keys \ {key}}
        \cup UNION {Range(ParseIPNets(claims[c].ips).ips) : c \in ClaimNames}

\* C1: a key without a claim whose events were, in order and without failure,
\* one or more completed events and then one delete has had its annotated IPs
\* passed to ReleaseIPs exactly once and its tunnel id name passed to ReleaseID
\* exactly once (on a network that has them), and the same holds after the
\* completed events alone; the addresses are back in the free set unless
\* another pod or claim holds them.
C1_ReleasedExactlyOnce ==
    \A key \in Keys :
        ClaimRefOf(key[2], key[1]) = "" /\ life[key] \in {"comp", "compdel"} =>
            /\ hasIPAM => relIPs[key] = 1
            /\ hasIPAM => (annot[key].ips \cap pool) \subseteq OtherHolders(key)
            /\ hasIDAllocation => relID[key] = 1
            /\ hasIDAllocation => podIdAllocationName(key[1], key[2]) \notin DOMAIN idAllocator

C1_Witness ==
    \E key \in Keys :
        /\ ClaimRefOf(key[2], key[1]) = ""
        /\ life[key] = "compdel"
        /\ hasIPAM /\ hasIDAllocation
        /\ annot[key].ips # {}
        /\ relIPs[key] = 1 /\ relID[key] = 1

\* C2: whatever the order of the events of a key, duplicated and out-of-order
\* ones included, and with no failed release, its IPs and its tunnel id are
\* released at most once.
C2_ReleasedAtMostOnce ==
    \A key \in Keys :
        life[key] # "relfail" => relIPs[key] <= 1 /\ relID[key] <= 1

\* a pod that is Active on the cluster and for which this run of the
\* controller has handled allocate events only
ActivePod(uid) ==
    /\ phase[uid] = "active"
    /\ \A nad \in NADs : life[<<nad, uid>>] \in {"none", "active"}

\* C3: no two Active pods hold the same IP, whatever the events of the pods
\* and the removals of claims before.
C3_NoSharedIPAmongActivePods ==
    \A k1 \in Keys, k2 \in Keys :
        k1[2] # k2[2] /\ ActivePod(k1[2]) /\ ActivePod(k2[2]) =>
            annot[k1].ips \cap annot[k2].ips = {}

\* C4: Sync releases nothing: no call of ReleaseIPs or ReleaseID is made by the
\* release path, and every address and every tunnel id that was allocated
\* before Sync is allocated after it.
C4_SyncReleasesNothing ==
    [][lastOp'.op = "PodSync" =>
          /\ pool \subseteq pool'
          /\ \A n \in DOMAIN idAllocator :
                n \in DOMAIN idAllocator' /\ idAllocator'[n] = idAllocator[n]
          /\ relIPs' = relIPs
          /\ relID' = relID]_vars

C4_Witness ==
    /\ lastOp.op = "PodSync"
    /\ \E u \in Pods :
          /\ phase[u] = "completed"
          /\ <<"n1", "release">> \in lastOp.paths
          /\ life[<<"n1", u>>] = "synccomp"
          /\ annot[<<"n1", u>>].ips # {}
          /\ annot[<<"n1", u>>].ips \subseteq pool
          /\ podIdAllocationName("n1", u) \in DOMAIN idAllocator

\* C5: a Reconcile whose claim object has a non-empty status returns nil, issues
\* no status write and leaves what is persisted of the claims as it was,
\* whatever ips it is handed.
C5_ReconcileKeepsRecordedStatus ==
    [][lastOp'.op = "ClaimReconcile" /\ Len(lastOp'.snap.ips) > 0 =>
          /\ lastOp'.err = ErrNil
          /\ lastOp'.writes = <<>>
          /\ claims' = claims]_vars

C5_Witness ==
    /\ lastOp.op = "ClaimReconcile"
    /\ Len(lastOp.snap.ips) > 0
    /\ Len(lastOp.ips) > 0
    /\ lastOp.ips # lastOp.snap.ips
    /\ lastOp.writes = <<>>
    /\ lastOp.err = ErrNil

\* C6: once the persisted status of a claim holds a non-empty list of IPs no
\* step changes it, whatever the calls of Reconcile and the claim objects
\* they are handed, stale ones with an empty status included.
C6_FirstWriteWins ==
    [][\A c \in ClaimNames :
          Len(claims[c].ips) > 0 => claims'[c].ips = claims[c].ips]_vars

C6_Witness ==
    /\ lastOp.op = "ClaimReconcile"
    /\ Len(lastOp.snap.ips) = 0
    /\ lastOp.snap.rv < claims[lastOp.claim].rv
    /\ claims[lastOp.claim].exists
    /\ Len(claims[lastOp.claim].ips) > 0
    /\ Len(lastOp.ips) > 0
    /\ lastOp.ips # claims[lastOp.claim].ips
    /\ ~lastOp.fails
    /\ lastOp.err # ErrNil

\* C7: a Reconcile whose claim object has an empty status issues one status
\* write that carries exactly ips; when the write is accepted it returns nil
\* and the persisted status is ips, and when the write fails it returns an
\* error and nothing persisted changes.
C7_ReconcileWritesOnce ==
    [][lastOp'.op = "ClaimReconcile" /\ Len(lastOp'.snap.ips) = 0 =>
          LET c == lastOp'.claim
              accepted == /\ ~lastOp'.fails
                          /\ claims[c].exists
                          /\ lastOp'.snap.rv = claims[c].rv
          IN /\ lastOp'.writes = <<lastOp'.ips>>
             /\ accepted => lastOp'.err = ErrNil /\ claims'[c].ips = lastOp'.ips
             /\ ~accepted => lastOp'.err # ErrNil /\ claims' = claims]_vars

C7_Witness ==
    /\ lastOp.op = "ClaimReconcile"
    /\ Len(lastOp.snap.ips) = 0
    /\ Len(lastOp.ips) > 0
    /\ lastOp.writes = <<lastOp.ips>>
    /\ lastOp.err = ErrNil
    /\ claims[lastOp.claim].ips = lastOp.ips

\* the addresses the claims of a list record
RecordedAddrs(objs) ==
    UNION {Range(ParseIPNets(objs[i].ips).ips) :
              i \in {j \in 1..Len(objs) : objs[j].isClaim}}

\* C8: after a Sync that returned nil every address recorded in the status of
\* a claim of the list is allocated in the pool.
C8_SyncedStatusAllocated ==
    lastOp.op = "ClaimSync" /\ lastOp.err = ErrNil =>
        RecordedAddrs(lastOp.objs) \subseteq pool

\* C9: Sync returns nil when the recorded addresses are all allocated already,
\* and returns an error whenever a claim of the list records an address
\* outside the ranges of the pool.
C9_SyncErrors ==
    lastOp.op = "ClaimSync" =>
        LET objs == lastOp.objs
            claimIdx == {i \in 1..Len(objs) : objs[i].isClaim}
            allParse == \A i \in claimIdx : ParseIPNets(objs[i].ips).err = ErrNil
            outOfRange == \E i \in claimIdx : \E j \in 1..Len(objs[i].ips) :
                             objs[i].ips[j].kind = "cidr" /\ objs[i].ips[j].addr \notin IPs
        IN /\ allParse /\ RecordedAddrs(objs) \subseteq lastOp.before => lastOp.err = ErrNil
           /\ outOfRange => lastOp.err # ErrNil

\* C10: an event whose snapshot is unscheduled or host-networked makes no
\* allocator call, no ledger change and no annotation write, a deletion or a
\* completed pod included; else the attachments of a completed or deleted pod
\* take the release path, which allocates and writes nothing, and those of
\* any other pod take the allocate path, which releases nothing and leaves
\* the ledger alone; a pod on the network has an attachment handled.
C10_Classification ==
    [][lastOp'.op = "PodReconcile" =>
          LET snap == lastOp'.snap
              del == lastOp'.deleted
              paths == lastOp'.paths
          IN /\ ~snap.sched \/ snap.hostNet =>
                   /\ paths = {}
                   /\ lastOp'.err = ErrNil
                   /\ UNCHANGED <<pool, idAllocator, releasedPods, annot, claims,
                                  relIPs, relID>>
             /\ snap.sched /\ ~snap.hostNet /\ (snap.completed \/ del) =>
                   /\ \A pth \in paths : pth[2] = "release"
                   /\ Len(lastOp'.order) > 0 => paths # {}
                   /\ annot' = annot /\ claims' = claims
                   /\ pool' \subseteq pool
                   /\ DOMAIN idAllocator' \subseteq DOMAIN idAllocator
             /\ snap.sched /\ ~snap.hostNet /\ ~snap.completed /\ ~del =>
                   /\ \A pth \in paths : pth[2] = "allocate"
                   /\ Len(lastOp'.order) > 0 => paths # {}
                   /\ releasedPods' = releasedPods
                   /\ relIPs' = relIPs /\ relID' = relID
                   /\ pool \subseteq pool']_vars

C10_Witness ==
    /\ lastOp.op = "PodReconcile"
    /\ lastOp.deleted /\ lastOp.snap.sched /\ lastOp.snap.hostNet /\ lastOp.snap.completed
    /\ Len(lastOp.order) > 0
    /\ lastOp.paths = {}
    /\ \E key \in Keys : annot[key].ips # {} /\ annot[key].ips \subseteq pool

\* the addresses among the status strings of a claim, well formed ones only
WellFormedAddrs(strs) == {strs[i].addr : i \in {j \in 1..Len(strs) : strs[j].kind = "cidr"}}

\* C16 (as amended): Delete of a claim whose status strings all parse returns
\* nil and leaves allocated exactly the addresses that were allocated and are
\* not recorded in the status, so that a Delete of addresses that are free
\* (a second Delete, addresses never allocated) leaves the pool as it was; a
\* status with a string that does not parse makes Delete return an error and
\* release nothing.
C16_DeleteReleasesRecorded ==
    [][lastOp'.op = "ClaimRelease" =>
          LET strs == lastOp'.ips
          IN IF ParseIPNets(strs).err = ErrNil
             THEN /\ lastOp'.err = ErrNil
                  /\ pool' = pool \ WellFormedAddrs(strs)
                  /\ WellFormedAddrs(strs) \cap pool = {} => pool' = pool
             ELSE /\ lastOp'.err # ErrNil
                  /\ pool' = pool]_vars

C16_Witness ==
    /\ lastOp.op = "ClaimRelease"
    /\ lastOp.again
    /\ Len(lastOp.ips) > 0
    /\ WellFormedAddrs(lastOp.ips) \cap IPs # {}
    /\ lastOp.err = ErrNil
    /\ lastOp.before = pool

\* C16 (as stated): Delete returns no error and every address recorded in the
\* claim's status is free afterwards.
C16_DeleteNeverFails ==
    lastOp.op = "ClaimRelease" =>
        lastOp.err = ErrNil /\ WellFormedAddrs(lastOp.ips) \cap pool = {}

\* C18: with goroutines interleaved between the calls of the release path, no
\* step releases a key from an allocator while the ledger holds the key, and
\* a key whose delete event has not been processed has been released from
\* each allocator at most once.
C18_NoReleaseWhileMarked ==
    /\ [][\A key \in Keys :
            relIPs'[key] > relIPs[key] \/ relID'[key] > relID[key] =>
                ~isPodReleased(releasedPods, key[1], key[2])]_vars
    /\ [](\A key \in Keys : life[key] # "del" => relIPs[key] <= 1 /\ relID[key] <= 1)

\* C19: isPodReleased(nad, uid) is true exactly when the last ledger call for
\* (nad, uid) was addReleasedPod, whatever the calls made for other keys.
C19_LedgerTracksLastCall ==
    \A key \in Keys :
        isPodReleased(releasedPods, key[1], key[2]) <=> life[key] = "marked"

C19_Witness ==
    /\ life[<<"n1", 1>>] = "unmarked"
    /\ life[<<"n1", 2>>] = "marked"
    /\ life[<<"n2", 1>>] = "marked"
    /\ isPodReleased(releasedPods, "n1", 2)
    /\ ~isPodReleased(releasedPods, "n1", 1)

\* the claim a pod's attachment refers to is found by the lookup of the event
\* recorded in op
ClaimFound(op) ==
    /\ ClaimRefOf(op.uid, "n1") # ""
    /\ claims[ClaimRefOf(op.uid, "n1")].exists
    /\ "lookup" \notin op.faults

\* the event recorded in op took the given path for the attachment on "n1"
TookPath(op, path) == op.op = "PodReconcile" /\ <<"n1", path>> \in op.paths

\* C11: a first release of a pod (completion or deletion) whose attachment has
\* a claim that the lookup finds leaves the pool of addresses alone and makes
\* no release call for them, and still releases the tunnel id; without a claim
\* reference, or when the lookup fails, the release call for the addresses is
\* made and, when it succeeds, the pod's addresses are free afterwards.
C11_ClaimKeepsIPs ==
    [][ (TookPath(lastOp', "release")
          /\ ~isPodReleased(releasedPods, "n1", lastOp'.uid))
        => LET key == <<"n1", lastOp'.uid>>
               ips == IF lastOp'.stripped THEN {} ELSE annot[key].ips
           IN /\ (hasIPAM /\ ClaimFound(lastOp'))
                    => (relIPs'[key] = relIPs[key] /\ pool' = pool)
              /\ (hasIPAM /\ ~ClaimFound(lastOp'))
                    => /\ relIPs'[key] = relIPs[key] + 1
                       /\ lastOp'.err = ErrNil => pool' = pool \ ips
              /\ hasIDAllocation
                    => /\ relID'[key] = relID[key] + 1
                       /\ podIdAllocationName("n1", lastOp'.uid) \notin DOMAIN idAllocator'
      ]_vars

\* a pod with a claim that holds an address and a tunnel id has been released
\* for the first time
C11_Witness ==
    /\ TookPath(lastOp, "release")
    /\ ClaimRefOf(lastOp.uid, "n1") # ""
    /\ hasIPAM /\ hasIDAllocation
    /\ lastOp.err = ErrNil
    /\ relIPs[<<"n1", lastOp.uid>>] = 0
    /\ relID[<<"n1", lastOp.uid>>] = 1
    /\ annot[<<"n1", lastOp.uid>>].ips # {}
    /\ annot[<<"n1", lastOp.uid>>].ips \subseteq pool

\* C12: when the allocate path returns the error of a failed annotation update
\* or claim status update, the pool of addresses and the tunnel ids are what
\* they were before the attempt.
C12_FailedWriteUnwinds ==
    [][ (/\ TookPath(lastOp', "allocate")
         /\ lastOp'.err # ErrNil
         /\ lastOp'.faults \cap {"annotWrite", "claimWrite"} # {})
        => (pool' = pool /\ idAllocator' = idAllocator)
      ]_vars

\* C14: on the allocate path with IPAM, a claim reference and a lookup that
\* fails, Reconcile returns an error and no address is allocated, no tunnel id
\* is allocated, and neither the pod annotation nor the claim status is
\* written.
C14_FailedLookupAllocatesNothing ==
    [][ (/\ TookPath(lastOp', "allocate")
         /\ hasIPAM
         /\ ClaimRefOf(lastOp'.uid, "n1") # ""
         /\ ~ClaimFound(lastOp'))
        => /\ lastOp'.err # ErrNil
           /\ pool' = pool
           /\ idAllocator' = idAllocator
           /\ annot' = annot
           /\ claims' = claims
      ]_vars

\* the lookup of the claim of a pod without annotation has failed while
\* addresses and tunnel ids were free
C14_Witness ==
    /\ TookPath(lastOp, "allocate")
    /\ hasIPAM /\ hasIDAllocation
    /\ ClaimRefOf(lastOp.uid, "n1") # ""
    /\ "lookup" \in lastOp.faults
    /\ lastOp.err # ErrNil
    /\ annot[<<"n1", lastOp.uid>>] = NoAnnotation
    /\ pool = {}

C15_ZeroStaysReserved ==
    hasIDAllocation =>
        /\ ZeroName \in DOMAIN idAllocator
        /\ idAllocator[ZeroName] = 0
        /\ \A n \in DOMAIN idAllocator \ {ZeroName} : idAllocator[n] # 0
        /\ \A key \in Keys : annot[key].present => annot[key].tid # 0

\* one pod holds a tunnel id after another pod's id was released twice
C15_Witness ==
    /\ hasIDAllocation
    /\ idAllocator[ZeroName] = 0
    /\ \E u, v \in Pods :
         /\ u # v
         /\ podIdAllocationName("n1", u) \in DOMAIN idAllocator
         /\ relID[<<"n1", v>>] = 2
         /\ podIdAllocationName("n1", v) \notin DOMAIN idAllocator

\* C17: a Sync in which the reconcile of a pod failed (a claim lookup, an
\* allocation or a persisted write) returns a non-nil error.
C17_FailuresReported ==
    lastOp.op = "PodSync" => (lastOp.failedPods = {} \/ lastOp.err # ErrNil)

\* the NADs of the event recorded in op that come before, and after, the NAD
\* whose reconcile failed
NADsBefore(op) ==
    {op.order[i] : i \in {j \in 1..Len(op.order) :
                            \E k \in (j + 1)..Len(op.order) : op.order[k] = op.failedAt}}
NADsAfter(op) ==
    {op.order[i] : i \in {j \in 1..Len(op.order) :
                            \E k \in 1..(j - 1) : op.order[k] = op.failedAt}}

\* C13: when the reconcile of one NAD of a pod fails, Reconcile returns the
\* error; the NADs that come after it are not handled: their annotation, their
\* ledger entry, their tunnel id and their release counts are what they were;
\* the NADs handled before it keep their effects: an allocated NAD is
\* annotated with addresses and a tunnel id that are allocated, a released
\* NAD is in the ledger exactly when the event was no deletion.
C13_AbortsAtFirstError ==
    [][ (lastOp'.op = "PodReconcile" /\ lastOp'.failedAt # "")
        => /\ lastOp'.err # ErrNil
           /\ \A nad \in NADsAfter(lastOp') :
                LET key == <<nad, lastOp'.uid>>
                    name == podIdAllocationName(nad, lastOp'.uid)
                IN /\ \A path \in {"allocate", "release"} : <<nad, path>> \notin lastOp'.paths
                   /\ annot'[key] = annot[key]
                   /\ relIPs'[key] = relIPs[key]
                   /\ relID'[key] = relID[key]
                   /\ isPodReleased(releasedPods', nad, lastOp'.uid)
                        <=> isPodReleased(releasedPods, nad, lastOp'.uid)
                   /\ name \in DOMAIN idAllocator' <=> name \in DOMAIN idAllocator
           /\ \A nad \in NADsBefore(lastOp') :
                LET key == <<nad, lastOp'.uid>>
                    name == podIdAllocationName(nad, lastOp'.uid)
                IN /\ <<nad, "allocate">> \in lastOp'.paths
                      => /\ annot'[key].present
                         /\ hasIPAM => (annot'[key].ips # {} /\ annot'[key].ips \subseteq pool')
                         /\ hasIDAllocation => (name \in DOMAIN idAllocator'
                                                /\ idAllocator'[name] = annot'[key].tid)
                   /\ (<<nad, "release">> \in lastOp'.paths /\ (hasIPAM \/ hasIDAllocation))
                      => (isPodReleased(releasedPods', nad, lastOp'.uid) <=> ~lastOp'.deleted)
      ]_vars

\* the second NAD of a pod failed after the first one was given an address and
\* a tunnel id
C13_Witness ==
    /\ lastOp.op = "PodReconcile"
    /\ lastOp.failedAt # ""
    /\ NADsBefore(lastOp) # {}
    /\ \E nad \in NADsBefore(lastOp) :
         /\ <<nad, "allocate">> \in lastOp.paths
         /\ annot[<<nad, lastOp.uid>>].present
    /\ ~annot[<<lastOp.failedAt, lastOp.uid>>].present

\* C21: after any sequence of addReleasedPod and deleteReleasedPod calls no
\* NAD of releasedPods maps to an empty set, and a NAD is a key of releasedPods
\* exactly when the last ledger call of at least one pod UID for it was
\* addReleasedPod.
C21_NoEmptyNADSets ==
    /\ \A nad \in DOMAIN releasedPods : releasedPods[nad] # {}
    /\ \A nad \in NADs :
         nad \in DOMAIN releasedPods <=> \E uid \in Pods : life[<<nad, uid>>] = "marked"

\* the last pod of a NAD was deleted from the ledger while another NAD keeps
\* an entry
C21_Witness ==
    /\ lastOp.op = "deleteReleasedPod"
    /\ lastOp.nad = "n1"
    /\ \A uid \in Pods : life[<<"n1", uid>>] = "unmarked"
    /\ "n1" \notin DOMAIN releasedPods
    /\ "n2" \in DOMAIN releasedPods

\* C22 (as amended): on a network that requires IPAM or tunnel ids, a key that
\* Sync handled as completed is in the ledger, and is no longer in it once
\* its delete event was handled; on any network no ReleaseIPs and no
\* ReleaseID call was made for it by Sync or by the completed and delete
\* events that followed.
C22_SyncedCompletedNeverReleased ==
    \A key \in Keys :
        life[key] \in {"synccomp", "synccompdel"} =>
            /\ relIPs[key] = 0
            /\ relID[key] = 0
            /\ (hasIPAM \/ hasIDAllocation) =>
                  (isPodReleased(releasedPods, key[1], key[2]) <=> life[key] = "synccomp")

\* a pod that was allocated, completed unseen, was synced as completed and
\* then deleted still has its address and tunnel id allocated
C22_Witness ==
    \E key \in Keys :
        /\ life[key] = "synccompdel"
        /\ hasIPAM /\ hasIDAllocation
        /\ ClaimRefOf(key[2], key[1]) = ""
        /\ annot[key].ips # {}
        /\ annot[key].ips \subseteq pool
        /\ podIdAllocationName(key[1], key[2]) \in DOMAIN idAllocator
        /\ ~isPodReleased(releasedPods, key[1], key[2])

\* C22 (as stated): on any network, a key that Sync handled as completed is in
\* the ledger until its delete event.
C22_SyncedCompletedMarked ==
    \A key \in Keys :
        life[key] = "synccomp" => isPodReleased(releasedPods, key[1], key[2])

\* C23: a Sync over a list in which the recorded strings of some claim do not
\* parse returns an error and leaves the pool as it was, whatever the claims
\* before it in the list record.
C23_SyncParsesBeforeReserving ==
    [][ (/\ lastOp'.op = "ClaimSync"
         /\ \E i \in 1..Len(lastOp'.objs) :
               /\ lastOp'.objs[i].isClaim
               /\ ParseIPNets(lastOp'.objs[i].ips).err # ErrNil)
        => (lastOp'.err # ErrNil /\ pool' = pool)
      ]_vars

\* a Sync failed on its second claim after a first claim that records a free
\* address of the subnet
C23_Witness ==
    /\ lastOp.op = "ClaimSync"
    /\ Len(lastOp.objs) = 2
    /\ lastOp.objs[1].isClaim
    /\ ParseIPNets(lastOp.objs[1].ips).err = ErrNil
    /\ WellFormedAddrs(lastOp.objs[1].ips) \cap (IPs \ pool) # {}
    /\ lastOp.objs[2].isClaim
    /\ ParseIPNets(lastOp.objs[2].ips).err # ErrNil
    /\ lastOp.err # ErrNil
    /\ lastOp.before = pool

====
